---- MODULE Spec2Model ----
(***************************************************************************)
(* Model of torchquantum/super_layers.py: get_combs, the base class        *)
(* SuperQuantumModule and its five super-layer variants.                    *)
(*                                                                         *)
(* Python values are records [t |-> type name, v |-> payload]: the type    *)
(* tag is part of the value because Python's ==, `in` and < depend on it   *)
(* (a list never equals a tuple, None is not iterable, ...).               *)
(*                                                                         *)
(* One layer object is modelled.  The device handed to forward is opaque   *)
(* to the module; the model records the gate applications a pass makes on  *)
(* it (applied) and how the pass ended (result).  Both describe the latest  *)
(* pass under the current selector: a new selector starts a new record.    *)
(* The decorator tq.static_support and the gate library are outside this   *)
(* file; a gate call is modelled as the record of its index and wires.     *)
(***************************************************************************)
EXTENDS Integers, Sequences, FiniteSets

VARIABLES
    variant,              \* class of the constructed layer, "none" before construction
    n_wires,              \* self.n_wires
    ops_all,              \* self.ops_all: one gate instance per wire
    wire_reverse,         \* self.wire_reverse (Super2QLayer)
    n_front_share_wires,  \* self.n_front_share_wires (Super1QShareFrontLayer)
    sample_arch,          \* self.sample_arch
    q_device,             \* self.q_device: 0 = attribute absent, else the device stored
    applied,              \* gate applications of the latest pass under the current selector
    result,               \* "none" (no pass yet under this selector) | "ok" | "fault"
    ret,                  \* value returned by the latest call
    inset,                \* get_combs: argument inset
    n                     \* get_combs: argument n

vars == <<variant, n_wires, ops_all, wire_reverse, n_front_share_wires,
          sample_arch, q_device, applied, result, ret, inset, n>>

layer_vars == <<variant, n_wires, ops_all, wire_reverse, n_front_share_wires,
                sample_arch, q_device>>

(***************************************************************************)
(* Bounds                                                                  *)
(***************************************************************************)
MaxWires == 3
NumDevices == 2
MaxSelPairs == 2
MaxLen == 3
MaxSizes == 2

(***************************************************************************)
(* Python values                                                           *)
(***************************************************************************)
PyNone == [t |-> "None", v |-> <<>>]
PyInt(i) == [t |-> "int", v |-> i]
PyTuple(s) == [t |-> "tuple", v |-> s]
PyList(s) == [t |-> "list", v |-> s]
NoRet == [t |-> "noret", v |-> <<>>]

IsContainer(x) == x.t \in {"tuple", "list"}

\* Python ==: values of different types are unequal; sequences compare itemwise
RECURSIVE PyEq(_, _)
PyEq(a, b) ==
    IF a.t # b.t THEN FALSE
    ELSE IF a.t = "int" THEN a.v = b.v
    ELSE IF IsContainer(a)
         THEN Len(a.v) = Len(b.v) /\ \A i \in 1..Len(a.v) : PyEq(a.v[i], b.v[i])
    ELSE TRUE

\* mutant of contains: a selector that is no container holds nothing
contains_lenient(x, c) ==
    IF ~IsContainer(c) THEN "False"
    ELSE IF \E i \in 1..Len(c.v) : PyEq(c.v[i], x) THEN "True" ELSE "False"

\* Python `x in c`: TypeError unless c is iterable
contains(x, c) ==
    IF ~IsContainer(c) THEN "TypeError"
    ELSE IF \E i \in 1..Len(c.v) : PyEq(c.v[i], x) THEN "True" ELSE "False"

\* Python `k < s` for an int k: TypeError unless s is a number
lt(k, s) ==
    IF s.t # "int" THEN "TypeError"
    ELSE IF k < s.v THEN "True" ELSE "False"

\* Python `a or b` on outcomes: b is evaluated only when a is false
py_or(a, b) == IF a = "False" THEN b ELSE a

\* range(lo, hi) as a sequence of ints
range(lo, hi) == [i \in 1..(IF hi > lo THEN hi - lo ELSE 0) |-> PyInt(lo + i - 1)]

\* sorted([a, b], reverse=rev)
sorted(a, b, rev) ==
    LET lo == IF a <= b THEN a ELSE b
        hi == IF a <= b THEN b ELSE a
    IN IF rev THEN <<hi, lo>> ELSE <<lo, hi>>

(***************************************************************************)
(* get_combs                                                               *)
(***************************************************************************)
prepend(h, rest) == [i \in 1..Len(rest) |-> PyTuple(<<h>> \o rest[i].v)]

\* itertools.combinations(pool, r), r >= 0: the r-length subsequences of pool
\* in lexicographic order of positions
RECURSIVE combinations(_, _)
combinations(pool, r) ==
    IF r = 0 THEN << PyTuple(<<>>) >>
    ELSE IF Len(pool) < r THEN <<>>
    ELSE prepend(Head(pool), combinations(Tail(pool), r - 1))
         \o combinations(Tail(pool), r)

\* all_combs after extending it with combinations(pool, k) for k in sizes[from..]
RECURSIVE extend_all(_, _, _)
extend_all(pool, sizes, from) ==
    IF from > Len(sizes) THEN <<>>
    ELSE combinations(pool, sizes[from].v) \o extend_all(pool, sizes, from + 1)

\* mutant of get_combs: range(1, len(inset)) misses the full-size combination
get_combs_short(elems, sz) ==
    IF sz.t = "None" THEN extend_all(elems, range(1, Len(elems)), 1)
    ELSE IF sz.t = "int" THEN combinations(elems, sz.v)
    ELSE IF IsContainer(sz) THEN extend_all(elems, sz.v, 1)
    ELSE <<>>

\* mutant of get_combs: `if not n` takes the size 0 for "no size given"
get_combs_falsy(elems, sz) ==
    IF sz.t = "None" \/ (sz.t = "int" /\ sz.v = 0)
    THEN extend_all(elems, range(1, Len(elems) + 1), 1)
    ELSE IF sz.t = "int" THEN combinations(elems, sz.v)
    ELSE IF IsContainer(sz) THEN extend_all(elems, sz.v, 1)
    ELSE <<>>

\* get_combs(inset, n): the list all_combs it returns
get_combs(elems, sz) ==
    IF sz.t = "None" THEN extend_all(elems, range(1, Len(elems) + 1), 1)
    ELSE IF sz.t = "int" THEN combinations(elems, sz.v)
    ELSE IF IsContainer(sz) THEN extend_all(elems, sz.v, 1)
    ELSE <<>>

(***************************************************************************)
(* Construction                                                            *)
(***************************************************************************)
\* the QuantumModuleList built by `for k in range(n_wires): ops_all.append(op(...))`
new_ops_all(nw, has_params, trainable) ==
    [k \in 1..nw |-> [has_params |-> has_params, trainable |-> trainable]]

\* the (has_params, trainable) pairs layers are built with: the defaults, and
\* gates with trainable parameters
GateFlags == {<<FALSE, FALSE>>, <<TRUE, TRUE>>}

construct(cls, nw, ops, rev, front) ==
    /\ variant = "none"
    /\ variant' = cls
    /\ n_wires' = nw
    /\ ops_all' = ops
    /\ wire_reverse' = rev
    /\ n_front_share_wires' = front
    /\ sample_arch' = PyNone
    /\ UNCHANGED <<q_device, applied, result, ret, inset, n>>

SuperQuantumModule_init ==
    \E nw \in 1..MaxWires :
        construct("SuperQuantumModule", nw, <<>>, FALSE, 0)

Super1QLayer_init ==
    \E nw \in 1..MaxWires, fl \in GateFlags :
        construct("Super1QLayer", nw, new_ops_all(nw, fl[1], fl[2]), FALSE, 0)

Super2QLayer_init ==
    \E nw \in 1..MaxWires, fl \in GateFlags, rev \in BOOLEAN :
        construct("Super2QLayer", nw, new_ops_all(nw, fl[1], fl[2]), rev, 0)

Super1QShareFrontLayer_init ==
    \E nw \in 1..MaxWires, fl \in GateFlags :
        \E front \in 0..nw :
            construct("Super1QShareFrontLayer", nw, new_ops_all(nw, fl[1], fl[2]), FALSE, front)

Super1QSingleWireLayer_init ==
    \E nw \in 1..MaxWires, fl \in GateFlags :
        construct("Super1QSingleWireLayer", nw, new_ops_all(nw, fl[1], fl[2]), FALSE, 0)

Super1QAllButOneLayer_init ==
    \E nw \in 1..MaxWires, fl \in GateFlags :
        construct("Super1QAllButOneLayer", nw, new_ops_all(nw, fl[1], fl[2]), FALSE, 0)

(***************************************************************************)
(* set_sample_arch                                                         *)
(***************************************************************************)
\* the pairs Super2QLayer.arch_space combines
pair_choices(nw) == combinations(range(0, nw), 2)

\* a tuple of pair tuples as a list of pair lists, each pair reversed if rev
as_lists(sel, rev) ==
    PyList([i \in 1..Len(sel.v) |->
              PyList(IF rev THEN <<sel.v[i].v[2], sel.v[i].v[1]>> ELSE sel.v[i].v)])

\* selectors holding wire indices, one of them (nw) out of range
WireSelectors(nw) == get_combs(range(0, nw + 1), PyNone)

WireSelectorTable == [nw \in 1..MaxWires |-> WireSelectors(nw)]

\* selectors holding at most MaxSelPairs wire pairs, as arch_space lists them
PairSelectors(nw) == get_combs(pair_choices(nw), PyList(range(1, MaxSelPairs + 1)))

PairSelectorTable == [nw \in 1..MaxWires |-> PairSelectors(nw)]

\* self.sample_arch = sample_arch; the record of passes starts afresh
set_sample_arch(value) ==
    /\ variant # "none"
    /\ sample_arch' = value
    /\ applied' = <<>>
    /\ result' = "none"
    /\ ret' = PyNone
    /\ UNCHANGED <<variant, n_wires, ops_all, wire_reverse, n_front_share_wires,
                   q_device, inset, n>>

SetNone == set_sample_arch(PyNone)

SetInt == \E i \in -1..(n_wires + 1) : set_sample_arch(PyInt(i))

\* index containers are offered to the layers that test single wires
SetWires ==
    /\ variant \notin {"none", "SuperQuantumModule", "Super2QLayer"}
    /\ LET sels == WireSelectorTable[n_wires]
       IN \E i \in 1..Len(sels) : set_sample_arch(sels[i])

\* pair containers are offered to the layer that tests wire pairs: as arch_space
\* lists them (tuples) and as lists, in either orientation of the pairs
SetPairs ==
    /\ variant = "Super2QLayer"
    /\ LET sels == PairSelectorTable[n_wires]
       IN \E i \in 1..Len(sels) :
            \/ set_sample_arch(sels[i])
            \/ \E rev \in BOOLEAN : set_sample_arch(as_lists(sels[i], rev))

(***************************************************************************)
(* forward                                                                 *)
(***************************************************************************)
\* `for k in range(n_wires): if <test>: self.ops_all[k](q_device, wires=...)`,
\* from index k on; a test that raises ends the pass with what was applied
RECURSIVE for_k(_, _, _, _, _)
for_k(k, nw, tests, wires, log) ==
    IF k >= nw THEN [result |-> "ok", applied |-> log]
    ELSE IF tests[k] = "TypeError" THEN [result |-> "fault", applied |-> log]
    ELSE IF tests[k] = "True"
         THEN for_k(k + 1, nw, tests, wires, Append(log, [op |-> k, wires |-> wires[k]]))
    ELSE for_k(k + 1, nw, tests, wires, log)

\* the effect of a pass on the passed device and on the caller
passed(run) ==
    /\ applied' = run.applied
    /\ result' = run.result
    /\ ret' = IF run.result = "ok" THEN PyNone ELSE NoRet

\* mutant: the test looks up the next wire
Super1QLayer_test_next(k, arch) == contains(PyInt(k + 1), arch)

Super1QLayer_test(k, arch) == contains(PyInt(k), arch)

Super1QLayer_run(nw, arch) ==
    for_k(0, nw, [k \in 0..(nw - 1) |-> Super1QLayer_test(k, arch)],
          [k \in 0..(nw - 1) |-> <<k>>], <<>>)

Super1QLayer_forward ==
    /\ variant = "Super1QLayer"
    /\ \E dev \in 1..NumDevices : passed(Super1QLayer_run(n_wires, sample_arch))
    /\ UNCHANGED <<layer_vars, inset, n>>

\* mutant: the candidate partner is two wires ahead
Super2QLayer_pair_skip(k, nw) == <<k, (k + 2) % nw>>

\* the cyclic-adjacent candidate pair of index k
Super2QLayer_pair(k, nw) == <<k, (k + 1) % nw>>

Super2QLayer_test(k, nw, arch) ==
    LET p == Super2QLayer_pair(k, nw)
    IN py_or(contains(PyList(<<PyInt(p[1]), PyInt(p[2])>>), arch),
             contains(PyList(<<PyInt(p[2]), PyInt(p[1])>>), arch))

Super2QLayer_wires(k, nw, rev) ==
    LET p == Super2QLayer_pair(k, nw) IN sorted(p[1], p[2], rev)

Super2QLayer_run(nw, rev, arch) ==
    for_k(0, nw, [k \in 0..(nw - 1) |-> Super2QLayer_test(k, nw, arch)],
          [k \in 0..(nw - 1) |-> Super2QLayer_wires(k, nw, rev)], <<>>)

Super2QLayer_forward ==
    /\ variant = "Super2QLayer"
    /\ \E dev \in 1..NumDevices :
          passed(Super2QLayer_run(n_wires, wire_reverse, sample_arch))
    /\ UNCHANGED <<layer_vars, inset, n>>

\* mutant: the threshold wire itself is active
Super1QShareFrontLayer_test_le(k, arch) == lt(k - 1, arch)

Super1QShareFrontLayer_test(k, arch) == lt(k, arch)

Super1QShareFrontLayer_run(nw, arch) ==
    for_k(0, nw, [k \in 0..(nw - 1) |-> Super1QShareFrontLayer_test(k, arch)],
          [k \in 0..(nw - 1) |-> <<k>>], <<>>)

\* mutant: the pass clears the selector it consumed
Super1QShareFrontLayer_forward_consume ==
    /\ variant = "Super1QShareFrontLayer"
    /\ \E dev \in 1..NumDevices :
          /\ q_device' = dev
          /\ passed(Super1QShareFrontLayer_run(n_wires, sample_arch))
    /\ sample_arch' = PyNone
    /\ UNCHANGED <<variant, n_wires, ops_all, wire_reverse, n_front_share_wires,
                   inset, n>>

Super1QShareFrontLayer_forward ==
    /\ variant = "Super1QShareFrontLayer"
    /\ \E dev \in 1..NumDevices :
          /\ q_device' = dev
          /\ passed(Super1QShareFrontLayer_run(n_wires, sample_arch))
    /\ UNCHANGED <<variant, n_wires, ops_all, wire_reverse, n_front_share_wires,
                   sample_arch, inset, n>>

\* mutant: the test is inverted
Super1QSingleWireLayer_test_ne(k, arch) ==
    IF PyEq(PyInt(k), arch) THEN "False" ELSE "True"

Super1QSingleWireLayer_test(k, arch) ==
    IF PyEq(PyInt(k), arch) THEN "True" ELSE "False"

Super1QSingleWireLayer_run(nw, arch) ==
    for_k(0, nw, [k \in 0..(nw - 1) |-> Super1QSingleWireLayer_test(k, arch)],
          [k \in 0..(nw - 1) |-> <<k>>], <<>>)

Super1QSingleWireLayer_forward ==
    /\ variant = "Super1QSingleWireLayer"
    /\ \E dev \in 1..NumDevices :
          passed(Super1QSingleWireLayer_run(n_wires, sample_arch))
    /\ UNCHANGED <<layer_vars, inset, n>>

\* mutant: the test is inverted
Super1QAllButOneLayer_test_eq(k, arch) ==
    IF PyEq(PyInt(k), arch) THEN "True" ELSE "False"

Super1QAllButOneLayer_test(k, arch) ==
    IF PyEq(PyInt(k), arch) THEN "False" ELSE "True"

Super1QAllButOneLayer_run(nw, arch) ==
    for_k(0, nw, [k \in 0..(nw - 1) |-> Super1QAllButOneLayer_test(k, arch)],
          [k \in 0..(nw - 1) |-> <<k>>], <<>>)

Super1QAllButOneLayer_forward ==
    /\ variant = "Super1QAllButOneLayer"
    /\ \E dev \in 1..NumDevices :
          passed(Super1QAllButOneLayer_run(n_wires, sample_arch))
    /\ UNCHANGED <<layer_vars, inset, n>>

(***************************************************************************)
(* arch_space                                                              *)
(***************************************************************************)
SuperQuantumModule_arch_space == PyNone

Super1QLayer_arch_space(nw) == PyList(get_combs(range(0, nw), PyNone))

Super2QLayer_arch_space(nw) == PyList(get_combs(pair_choices(nw), PyNone))

Super1QShareFrontLayer_arch_space(front, nw) == PyList(range(front, nw + 1))

Super1QSingleWireLayer_arch_space(nw) == PyList(range(0, nw))

Super1QAllButOneLayer_arch_space(nw) == PyList(range(0, nw))

\* the spaces of the two combinatorial layers, per wire count
Super1QLayer_spaces == [nw \in 1..MaxWires |-> Super1QLayer_arch_space(nw)]

Super2QLayer_spaces == [nw \in 1..MaxWires |-> Super2QLayer_arch_space(nw)]

\* the property read, dispatched on the class of the layer
arch_space ==
    IF variant = "Super1QLayer" THEN Super1QLayer_spaces[n_wires]
    ELSE IF variant = "Super2QLayer" THEN Super2QLayer_spaces[n_wires]
    ELSE IF variant = "Super1QShareFrontLayer"
         THEN Super1QShareFrontLayer_arch_space(n_front_share_wires, n_wires)
    ELSE IF variant = "Super1QSingleWireLayer" THEN Super1QSingleWireLayer_arch_space(n_wires)
    ELSE IF variant = "Super1QAllButOneLayer" THEN Super1QAllButOneLayer_arch_space(n_wires)
    ELSE SuperQuantumModule_arch_space

read_arch_space ==
    /\ variant # "none"
    /\ ret.t # "list"
    /\ ret' = arch_space
    /\ UNCHANGED <<layer_vars, applied, result, inset, n>>

(***************************************************************************)
(* Specifications                                                          *)
(***************************************************************************)
\* the module is imported and no layer is constructed yet
NoLayer ==
    /\ variant = "none"
    /\ n_wires = 0
    /\ ops_all = <<>>
    /\ wire_reverse = FALSE
    /\ n_front_share_wires = 0
    /\ sample_arch = PyNone
    /\ q_device = 0
    /\ applied = <<>>
    /\ result = "none"
    /\ ret = NoRet

Init ==
    /\ NoLayer
    /\ inset = <<>>
    /\ n = PyNone

Next ==
    \/ SuperQuantumModule_init
    \/ Super1QLayer_init
    \/ Super2QLayer_init
    \/ Super1QShareFrontLayer_init
    \/ Super1QSingleWireLayer_init
    \/ Super1QAllButOneLayer_init
    \/ SetNone
    \/ SetInt
    \/ SetWires
    \/ SetPairs
    \/ Super1QLayer_forward
    \/ Super2QLayer_forward
    \/ Super1QShareFrontLayer_forward
    \/ Super1QSingleWireLayer_forward
    \/ Super1QAllButOneLayer_forward
    \/ read_arch_space

Spec == Init /\ [][Next]_vars

(***************************************************************************)
(* get_combs called on its own                                             *)
(***************************************************************************)
\* the lists get_combs is called on: wire indices, or wire pairs
Insets(m) == {range(0, m), pair_choices(m)}

\* the arguments of one call: n is None, an int, or an iterable of ints; a
\* negative size makes itertools.combinations raise and is left out
InitCombs ==
    /\ NoLayer
    /\ \E m \in 0..MaxLen : inset \in Insets(m)
    /\ \/ n = PyNone
       \/ \E k \in 0..(MaxLen + 1) : n = PyInt(k)
       \/ \E len \in 0..MaxSizes : \E ks \in [1..len -> 0..(MaxLen + 1)] :
             n = PyList([i \in 1..len |-> PyInt(ks[i])])

call_get_combs ==
    /\ ret.t = "noret"
    /\ ret' = PyList(get_combs(inset, n))
    /\ UNCHANGED <<layer_vars, applied, result, inset, n>>

NextCombs == call_get_combs

SpecCombs == InitCombs /\ [][NextCombs]_vars

(***************************************************************************)
(* Vocabulary of the properties                                            *)
(***************************************************************************)
Ran == result # "none"

Wires == 0..(n_wires - 1)

\* the wire indices a log of single-wire applications touches
GatedWires(log) == {log[i].wires[1] : i \in 1..Len(log)}

\* every application uses the gate instance of the wire it acts on
OwnGates(log) == \A i \in 1..Len(log) : log[i].wires = <<log[i].op>>

\* gate instances are used in strictly increasing index
Increasing(log) == \A i, j \in 1..Len(log) : i < j => log[i].op < log[j].op

\* the log of one application per wire 0..t-1, in order
FrontLog(log, t) ==
    /\ Len(log) = t
    /\ \A i \in 1..t : log[i] = [op |-> i - 1, wires |-> <<i - 1>>]

\* the list space holds the selector sel
InSpace(sel, space) == \E i \in 1..Len(space.v) : PyEq(space.v[i], sel)

\* the ints a container of ints holds
ElemSet(tup) == {tup.v[j].v : j \in 1..Len(tup.v)}

\* the list lst is exactly the ints lo, lo+1, ..., hi
IsIntRange(lst, lo, hi) ==
    /\ lst.t = "list"
    /\ Len(lst.v) = (IF hi >= lo THEN hi - lo + 1 ELSE 0)
    /\ \A i \in 1..Len(lst.v) : lst.v[i].t = "int" /\ lst.v[i].v = lo + i - 1

RECURSIVE Pow2(_)
Pow2(k) == IF k = 0 THEN 1 ELSE 2 * Pow2(k - 1)

\* a comes before b in lexicographic order (tuples of ints of equal length)
LexLess(a, b) ==
    \E p \in 1..Len(a.v) :
        /\ a.v[p].v < b.v[p].v
        /\ \A q \in 1..(p - 1) : a.v[q].v = b.v[q].v

AnyForward ==
    \/ Super1QLayer_forward
    \/ Super2QLayer_forward
    \/ Super1QShareFrontLayer_forward
    \/ Super1QSingleWireLayer_forward
    \/ Super1QAllButOneLayer_forward

ForwardVariants ==
    {"Super1QLayer", "Super2QLayer", "Super1QShareFrontLayer",
     "Super1QSingleWireLayer", "Super1QAllButOneLayer"}

(***************************************************************************)
(* C1                                                                      *)
(***************************************************************************)
\* the selector sel holds the two wires of candidate k as a pair, either way round
HoldsPair(sel, k, nw) ==
    \E i \in 1..Len(sel.v) :
        /\ IsContainer(sel.v[i])
        /\ Len(sel.v[i].v) = 2
        /\ \/ <<sel.v[i].v[1].v, sel.v[i].v[2].v>> = <<k, (k + 1) % nw>>
           \/ <<sel.v[i].v[1].v, sel.v[i].v[2].v>> = <<(k + 1) % nw, k>>

\* C1: with a selector taken from Super2QLayer.arch_space, a pass of
\* Super2QLayer.forward applies ops_all[k] for exactly the k whose candidate pair
\* (k, (k+1) mod n_wires), in either orientation, is in the selector, on the
\* wires sorted([k, (k+1) mod n_wires], reverse=wire_reverse), in increasing k.
C1_PairsInSelectorAreGated ==
    (/\ variant = "Super2QLayer"
     /\ n_wires >= 2
     /\ Ran
     /\ InSpace(sample_arch, Super2QLayer_spaces[n_wires]))
    => /\ result = "ok"
       /\ Increasing(applied)
       /\ {applied[i].op : i \in 1..Len(applied)}
            = {k \in Wires : HoldsPair(sample_arch, k, n_wires)}
       /\ \A i \in 1..Len(applied) :
            applied[i].wires
              = sorted(applied[i].op, (applied[i].op + 1) % n_wires, wire_reverse)

(***************************************************************************)
(* C2                                                                      *)
(***************************************************************************)
\* C2: with a selector from Super1QLayer.arch_space, a pass of
\* Super1QLayer.forward applies exactly one gate at each wire the selector holds,
\* wire k's own instance ops_all[k] at wire k, none at any other wire, in strictly
\* increasing wire index.
C2_Super1QGatesSelectedWires ==
    (/\ variant = "Super1QLayer"
     /\ Ran
     /\ InSpace(sample_arch, Super1QLayer_spaces[n_wires]))
    => /\ result = "ok"
       /\ OwnGates(applied)
       /\ Increasing(applied)
       /\ GatedWires(applied) = ElemSet(sample_arch)
       /\ Len(applied) = Cardinality(ElemSet(sample_arch))

C2_Witness ==
    /\ variant = "Super1QLayer"
    /\ n_wires = 3
    /\ result = "ok"
    /\ InSpace(sample_arch, Super1QLayer_spaces[n_wires])
    /\ Len(applied) = 2
    /\ applied[1].op = 0
    /\ applied[2].op = 2

C4_ForwardKeepsLayerState == [][AnyForward => UNCHANGED layer_vars]_vars

\* C4 as amended: a pass leaves sample_arch, n_wires, ops_all and the
\* construction flags as they were; the one attribute it writes is q_device, in
\* Super1QShareFrontLayer only, set to the passed device; and a pass that follows
\* a pass under the same selector makes the same applications and ends the same.
C4_ForwardKeepsSelectorAndGates ==
    [][AnyForward =>
        /\ UNCHANGED <<variant, n_wires, ops_all, wire_reverse,
                       n_front_share_wires, sample_arch>>
        /\ \/ q_device' = q_device
           \/ variant = "Super1QShareFrontLayer" /\ q_device' \in 1..NumDevices
        /\ Ran => (applied' = applied /\ result' = result)]_vars

C4_Witness ==
    /\ variant = "Super1QShareFrontLayer"
    /\ result = "ok"
    /\ q_device = NumDevices
    /\ Len(applied) = 2
    /\ sample_arch.t = "int"

(***************************************************************************)
(* C5                                                                      *)
(***************************************************************************)
\* C5: Super1QShareFrontLayer.arch_space is the ascending list
\* n_front_share_wires..n_wires, and for a threshold t in it a pass applies the
\* gates of wires 0..t-1, each its own, in order, and none at a wire >= t.
C5_ShareFrontSpaceAndForward ==
    variant = "Super1QShareFrontLayer"
    => /\ ret.t = "list" => IsIntRange(ret, n_front_share_wires, n_wires)
       /\ (/\ Ran
           /\ sample_arch.t = "int"
           /\ sample_arch.v \in n_front_share_wires..n_wires)
          => (result = "ok" /\ FrontLog(applied, sample_arch.v))

C5_Witness ==
    /\ variant = "Super1QShareFrontLayer"
    /\ n_wires = 3
    /\ n_front_share_wires = 1
    /\ sample_arch.t = "int"
    /\ sample_arch.v = 2
    /\ result = "ok"
    /\ Len(applied) = 2
    /\ ret.t = "list"
    /\ Len(ret.v) = 3

(***************************************************************************)
(* C6                                                                      *)
(***************************************************************************)
\* C6: Super1QSingleWireLayer and Super1QAllButOneLayer have the same
\* arch_space [0..n_wires-1]; for w in it the first gates exactly wire w (one
\* application), the second exactly the other wires (n_wires-1 applications,
\* increasing), so the two sets are disjoint and cover every wire.
C6_SingleAndAllButOneComplement ==
    variant \in {"Super1QSingleWireLayer", "Super1QAllButOneLayer"}
    => /\ ret.t = "list" => IsIntRange(ret, 0, n_wires - 1)
       /\ PyEq(Super1QSingleWireLayer_arch_space(n_wires),
               Super1QAllButOneLayer_arch_space(n_wires))
       /\ (Ran /\ sample_arch.t = "int" /\ sample_arch.v \in Wires)
          => LET single == Super1QSingleWireLayer_run(n_wires, sample_arch).applied
                 others == Super1QAllButOneLayer_run(n_wires, sample_arch).applied
             IN /\ result = "ok"
                /\ OwnGates(applied)
                /\ Increasing(applied)
                /\ variant = "Super1QSingleWireLayer"
                     => (applied = single
                         /\ Len(applied) = 1
                         /\ GatedWires(applied) = {sample_arch.v})
                /\ variant = "Super1QAllButOneLayer"
                     => (applied = others
                         /\ Len(applied) = n_wires - 1
                         /\ GatedWires(applied) = Wires \ {sample_arch.v})
                /\ GatedWires(single) \cap GatedWires(others) = {}
                /\ GatedWires(single) \cup GatedWires(others) = Wires

C6_Witness ==
    /\ variant = "Super1QAllButOneLayer"
    /\ n_wires = 3
    /\ sample_arch.t = "int"
    /\ sample_arch.v = 1
    /\ result = "ok"
    /\ GatedWires(applied) = {0, 2}
    /\ ret.t = "list"

(***************************************************************************)
(* C7                                                                      *)
(***************************************************************************)
\* C7: Super1QLayer.arch_space lists 2^n_wires - 1 selectors: every non-empty
\* subset of the wires exactly once, none empty, in non-decreasing size, within
\* a size in lexicographic order, each tuple increasing.
C7_Super1QSpaceIsAllSubsets ==
    (variant = "Super1QLayer" /\ ret.t = "list")
    => LET s == ret.v
       IN /\ Len(s) = Pow2(n_wires) - 1
          /\ \A i \in 1..Len(s) :
                /\ s[i].t = "tuple"
                /\ Len(s[i].v) >= 1
                /\ \A j \in 1..Len(s[i].v) : s[i].v[j].t = "int" /\ s[i].v[j].v \in Wires
                /\ \A j, l \in 1..Len(s[i].v) : j < l => s[i].v[j].v < s[i].v[l].v
          /\ \A S \in (SUBSET Wires) \ {{}} :
                Cardinality({i \in 1..Len(s) : ElemSet(s[i]) = S}) = 1
          /\ \A i, j \in 1..Len(s) :
                i < j => /\ Len(s[i].v) <= Len(s[j].v)
                         /\ Len(s[i].v) = Len(s[j].v) => LexLess(s[i], s[j])

C7_Witness ==
    /\ variant = "Super1QLayer"
    /\ n_wires = 3
    /\ ret.t = "list"
    /\ Len(ret.v) = 7
    /\ ElemSet(ret.v[5]) = {0, 2}

(***************************************************************************)
(* C8                                                                      *)
(***************************************************************************)
\* the out-of-space selectors C8 lists
OutOfSpace ==
    \/ /\ variant = "Super1QShareFrontLayer"
       /\ sample_arch.t = "int"
       /\ sample_arch.v > n_wires
    \/ /\ variant \in {"Super1QSingleWireLayer", "Super1QAllButOneLayer"}
       /\ sample_arch.t = "int"
       /\ sample_arch.v \notin Wires
    \/ /\ variant = "Super1QLayer"
       /\ IsContainer(sample_arch)
       /\ \A i \in 1..Len(sample_arch.v) :
             sample_arch.v[i].t = "int" /\ sample_arch.v[i].v >= n_wires

\* C8 as stated: with such a selector a pass applies no gate or raises a fault.
C8_OutOfSpaceNoOpOrFault ==
    (Ran /\ OutOfSpace) => (result = "fault" \/ applied = <<>>)

\* C8 as amended: with such a selector a pass never raises a fault;
\* Super1QShareFrontLayer (threshold > n_wires) and Super1QAllButOneLayer (index
\* outside 0..n_wires-1) apply the gate of every wire, in order;
\* Super1QSingleWireLayer and Super1QLayer apply no gate.
C8_OutOfSpaceByVariant ==
    (Ran /\ OutOfSpace)
    => /\ result = "ok"
       /\ variant \in {"Super1QShareFrontLayer", "Super1QAllButOneLayer"}
            => FrontLog(applied, n_wires)
       /\ variant \in {"Super1QSingleWireLayer", "Super1QLayer"} => applied = <<>>

C8_Witness ==
    /\ variant = "Super1QShareFrontLayer"
    /\ n_wires = 3
    /\ sample_arch.t = "int"
    /\ sample_arch.v = 4
    /\ result = "ok"
    /\ Len(applied) = 3

(***************************************************************************)
(* C9                                                                      *)
(***************************************************************************)
\* get_combs was called with one requested size: n an int, or an iterable of one int
OneSize == n.t = "int" \/ (IsContainer(n) /\ Len(n.v) = 1)

RequestedSize == IF n.t = "int" THEN n.v ELSE n.v[1].v

\* C9 as stated: get_combs returns an empty list when inset is empty, when the
\* requested size exceeds len(inset), and when the requested size is 0.
C9_EmptyResult ==
    (/\ ret.t = "list"
     /\ \/ Len(inset) = 0 /\ (n.t = "None" \/ OneSize)
        \/ OneSize /\ RequestedSize > Len(inset)
        \/ OneSize /\ RequestedSize = 0)
    => ret.v = <<>>

\* C9 as amended: get_combs returns an empty list when the requested size
\* exceeds len(inset), and when inset is empty and n is None; for the requested
\* size 0 it returns the list holding the one empty tuple, for every inset, the
\* empty one included.
C9_EmptyOrOneEmptyTuple ==
    ret.t = "list"
    => /\ (OneSize /\ RequestedSize > Len(inset)) => ret.v = <<>>
       /\ (n.t = "None" /\ Len(inset) = 0) => ret.v = <<>>
       /\ (OneSize /\ RequestedSize = 0)
            => (Len(ret.v) = 1 /\ ret.v[1].t = "tuple" /\ Len(ret.v[1].v) = 0)

C9_Witness ==
    /\ ret.t = "list"
    /\ n.t = "int"
    /\ n.v = 0
    /\ Len(inset) = 0
    /\ Len(ret.v) = 1

(***************************************************************************)
(* C10                                                                     *)
(***************************************************************************)
\* the two wires of candidate k, as a set
Candidate(k) == {Super2QLayer_pair(k, n_wires)[1], Super2QLayer_pair(k, n_wires)[2]}

\* the gate indices the selector item e activates
Activated(e) ==
    {k \in Wires :
        LET p == Super2QLayer_pair(k, n_wires)
        IN \/ PyEq(e, PyList(<<PyInt(p[1]), PyInt(p[2])>>))
           \/ PyEq(e, PyList(<<PyInt(p[2]), PyInt(p[1])>>))}

\* candidates are pairwise different pairs of two wires; a pass gates no pair of
\* wires twice; no selector item activates two gate instances
DistinctCandidates ==
    /\ \A k \in Wires : Cardinality(Candidate(k)) = 2
    /\ \A j, k \in Wires : j # k => Candidate(j) # Candidate(k)
    /\ result = "ok" =>
          \A i, j \in 1..Len(applied) :
              i # j => {applied[i].wires[1], applied[i].wires[2]}
                         # {applied[j].wires[1], applied[j].wires[2]}
    /\ IsContainer(sample_arch) =>
          \A i \in 1..Len(sample_arch.v) :
              Cardinality(Activated(sample_arch.v[i])) <= 1

\* C10 as stated: for every n_wires >= 2.
C10_CandidatesDistinctFrom2 ==
    (variant = "Super2QLayer" /\ n_wires >= 2) => DistinctCandidates

\* C10 as amended: for every n_wires >= 3 the n_wires candidate pairs are
\* pairwise different pairs of two distinct wires, so a pass gates no pair of
\* wires twice and no selector pair activates two gate instances; for
\* n_wires = 2 both candidates are the pair {0, 1}.
C10_CandidatesDistinctFrom3 ==
    variant = "Super2QLayer"
    => /\ n_wires >= 3 => DistinctCandidates
       /\ n_wires = 2 => Candidate(0) = Candidate(1)

C10_Witness ==
    /\ variant = "Super2QLayer"
    /\ n_wires = 3
    /\ sample_arch.t = "list"
    /\ result = "ok"
    /\ Len(applied) = 2
    /\ applied[1].op = 0
    /\ applied[2].op = 2

====
